---- MODULE Spec2Model ----
(***************************************************************************)
(* The draft approval workflow of draft_approval_workflow.py: the file     *)
(* watcher (DraftFileHandler), the TTS stage (generate_tts_audio), the     *)
(* notification stage (send_draft_to_discord) and the reaction handler     *)
(* (DraftApprovalBot), as tasks of one cooperative event loop.  A step of  *)
(* the model is the code a task runs between two suspension points.        *)
(***************************************************************************)
EXTENDS Integers, Sequences, FiniteSets, TLC

(***************************************************************************)
(* Text.  A string is a sequence of one-character strings.                 *)
(***************************************************************************)
UpperLetters == <<"A", "B", "C", "D", "E", "F", "G", "H", "I", "J", "K", "L", "M",
                  "N", "O", "P", "Q", "R", "S", "T", "U", "V", "W", "X", "Y", "Z">>

LowerLetters == <<"a", "b", "c", "d", "e", "f", "g", "h", "i", "j", "k", "l", "m",
                  "n", "o", "p", "q", "r", "s", "t", "u", "v", "w", "x", "y", "z">>

\* str.lower() on one character
LowerChar(c) ==
    IF \E i \in DOMAIN UpperLetters : UpperLetters[i] = c
    THEN LowerLetters[CHOOSE i \in DOMAIN UpperLetters : UpperLetters[i] = c]
    ELSE c

\* str.lower()
Lower(s) == [i \in DOMAIN s |-> LowerChar(s[i])]

\* sub in s
Contains(s, sub) ==
    \E i \in 0..(Len(s) - Len(sub)) : SubSeq(s, i + 1, i + Len(sub)) = sub

\* str.rfind('.'), as a 1-based position; 0 when there is no dot
RFindDot(s) ==
    IF \E i \in DOMAIN s : s[i] = "."
    THEN CHOOSE i \in DOMAIN s : s[i] = "." /\ \A j \in DOMAIN s : j > i => s[j] # "."
    ELSE 0

\* Path.suffix of a file name: from the last dot, unless the name has no dot,
\* starts with its only dot or ends with a dot
Suffix(name) ==
    LET i == RFindDot(name)
    IN  IF 1 < i /\ i < Len(name) THEN SubSeq(name, i, Len(name)) ELSE <<>>

\* Path.stem
Stem(name) == SubSeq(name, 1, Len(name) - Len(Suffix(name)))

ExtMd == <<".", "m", "d">>

ExtTxt == <<".", "t", "x", "t">>

ExtMp3 == <<".", "m", "p", "3">>

WordDraft == <<"d", "r", "a", "f", "t">>

\* Path(draft_path).with_suffix('.mp3'): the audio file of a draft
AudioPath(name) == Stem(name) \o ExtMp3

\* the filter of on_created, without the suffix test (a slip: any file named *draft*)
IsDraftFile_NoSuffixTest(name) == Contains(Lower(name), WordDraft)

\* file_path.suffix.lower() in ['.md', '.txt'] and 'draft' in file_path.name.lower()
IsDraftFile(name) ==
    /\ Lower(Suffix(name)) \in {ExtMd, ExtTxt}
    /\ Contains(Lower(name), WordDraft)

(***************************************************************************)
(* File names the watcher is shown.                                        *)
(***************************************************************************)
FileNames ==
    << <<"d", "r", "a", "f", "t", ".", "m", "d">>,
       <<"d", "r", "a", "f", "t", ".", "t", "x", "t">>,
       <<"D", "R", "A", "F", "T", ".", "M", "D">>,
       <<"m", "y", "D", "r", "a", "f", "t", "s", ".", "T", "x", "t">>,
       <<"n", "o", "t", "e", "s", ".", "m", "d">>,
       <<"d", "r", "a", "f", "t", ".", "p", "y">>,
       <<"d", "r", "a", "f", "t">>,
       <<"d", "r", "a", "f", "t", ".", "m", "d", ".", "b", "a", "k">>,
       <<"d", "r", "a", "f", "t", ".">>,
       <<"d", "r", "a", "f", ".", "m", "d">>,
       <<".", "m", "d">>,
       <<"d", "r", "a", "f", "t", ".", "m", "d", "x">> >>

\* every name of the table
WatchNames == {FileNames[i] : i \in DOMAIN FileNames}

\* the names the workflow is run on: two drafts with one stem
MainNames == {FileNames[1], FileNames[2]}

\* process_draft tasks created in a run
MaxTasks == 2

\* on_raw_reaction_add handlers started by a reviewer's reaction in a run
MaxHandlers == 2

Bot == "bot"

Reviewer == "reviewer"

Users == {Bot, Reviewer}

Approve == "approve"

Reject == "reject"

OtherEmoji == "other"

Emojis == {Approve, Reject, OtherEmoji}

\* the id of a message of the channel that is no card of the bot
ForeignMsg == 0

VARIABLES
    draftsDir,         \* names of the files in the drafts folder (drafts and audio)
    approvedDir,       \* names of the files in the approved folder
    rejectionsLog,     \* lines of rejections.log: <<"ts", draft path>>
    haConfigured,      \* HOME_ASSISTANT_URL and HOME_ASSISTANT_TOKEN are both set
    processed_drafts,  \* DraftApprovalBot.processed_drafts
    draft_messages,    \* DraftApprovalBot.draft_messages, in insertion order
    cards,             \* the messages the bot has posted; a card's id is its index
    ttsCalls,          \* calls of generate_tts_audio, per draft path
    failedTts,         \* paths logged "Failed to generate TTS for ..."
    tasks,             \* pending process_draft tasks
    handlers,          \* running on_raw_reaction_add handlers
    nTasks,            \* process_draft tasks created so far
    nHandlers,         \* handlers started so far by a reviewer's reaction
    ttsInput,          \* a draft content handed to generate_tts_audio
    ttsRequests,       \* the messages posted to the TTS service for ttsInput
    ttsCall,           \* one call of generate_tts_audio, step by step
    mainRun,           \* one run of main() and monitor_drafts_folder()
    snippet,           \* one call of generate_linkedin_snippet
    sched,             \* one run of the scheduler's main()
    embed,             \* one card composed by send_draft_to_discord
    social,            \* runs of run_social_workflow
    last               \* the step just taken

vars == <<draftsDir, approvedDir, rejectionsLog, haConfigured, processed_drafts,
          draft_messages, cards, ttsCalls, failedTts, tasks, handlers, nTasks, nHandlers,
          ttsInput, ttsRequests, ttsCall, mainRun, snippet, sched,
          embed, social, last>>

\* all but the record of the step just taken
progVars == <<draftsDir, approvedDir, rejectionsLog, haConfigured, processed_drafts,
              draft_messages, cards, ttsCalls, failedTts, tasks, handlers, nTasks,
              nHandlers, ttsInput, ttsRequests, ttsCall, mainRun, snippet, sched,
              embed, social>>

\* the variables of the text sent to the TTS service
textVars == <<ttsInput, ttsRequests>>

\* the variables of the programs and calls that are followed on their own
otherVars == <<ttsCall, mainRun, snippet, sched, embed, social>>

\* no call of generate_tts_audio, no run of main, no snippet and no scheduler
\* run is being followed
Idle == [pc |-> "idle"]

OthersIdle ==
    /\ ttsCall = Idle
    /\ mainRun = Idle
    /\ snippet = Idle
    /\ sched = Idle
    /\ embed = Idle
    /\ social = Idle

NoName == <<>>

Step(op, name, msg, user, emoji, outcome) ==
    [op |-> op, name |-> name, msg |-> msg, user |-> user, emoji |-> emoji,
     outcome |-> outcome]

(***************************************************************************)
(* The tracking table, a dict in insertion order.                          *)
(***************************************************************************)
Tracked == {draft_messages[i].path : i \in DOMAIN draft_messages}

\* every draft recorded under the message of the first entry of the table
DictSet_SameMessage(d, path, msg) ==
    Append(d, [path |-> path, msg |-> IF d = <<>> THEN msg ELSE d[1].msg])

\* draft_messages[path] = message
DictSet(d, path, msg) ==
    IF \E i \in DOMAIN d : d[i].path = path
    THEN [i \in DOMAIN d |-> IF d[i].path = path THEN [path |-> path, msg |-> msg] ELSE d[i]]
    ELSE Append(d, [path |-> path, msg |-> msg])

\* the entry left in the table
DictDel_Keep(d, path) == d

\* del draft_messages[path]
DictDel(d, path) == SelectSeq(d, LAMBDA e : e.path # path)

\* the loop of on_raw_reaction_add: the first path whose message has this id
Lookup(d, msg) ==
    IF \E i \in DOMAIN d : d[i].msg = msg
    THEN d[CHOOSE i \in DOMAIN d : d[i].msg = msg /\ \A j \in DOMAIN d : j < i => d[j].msg # msg].path
    ELSE NoName

RemoveAt(s, i) == SubSeq(s, 1, i - 1) \o SubSeq(s, i + 1, Len(s))

\* the state after DraftApprovalBot.__init__, before any event
Workflow0 ==
    /\ draftsDir = {}
    /\ approvedDir = {}
    /\ rejectionsLog = <<>>
    /\ haConfigured \in BOOLEAN
    /\ processed_drafts = {}
    /\ draft_messages = <<>>
    /\ cards = <<>>
    /\ ttsCalls = [n \in WatchNames |-> 0]
    /\ failedTts = {}
    /\ tasks = <<>>
    /\ handlers = <<>>
    /\ nTasks = 0
    /\ nHandlers = 0
    /\ last = Step("init", NoName, ForeignMsg, Bot, OtherEmoji, "none")

Init ==
    /\ Workflow0
    /\ ttsInput = <<>>
    /\ ttsRequests = <<>>
    /\ OthersIdle

(***************************************************************************)
(* DraftFileHandler.on_created.  A file (or a directory) named name appears  *)
(* in the drafts folder and the handler is called.  asyncio.create_task      *)
(* needs a running event loop in the calling thread: called on the           *)
(* observer's thread (inLoop = FALSE) it raises RuntimeError and no task is  *)
(* created.                                                                  *)
(***************************************************************************)
OnCreated(name, isDir, inLoop) ==
    /\ draftsDir' = IF isDir THEN draftsDir ELSE draftsDir \cup {name}
    /\ IF ~isDir /\ IsDraftFile(name)
       THEN IF inLoop
            THEN /\ nTasks < MaxTasks
                 /\ nTasks' = nTasks + 1
                 /\ tasks' = Append(tasks, [path |-> name, pc |-> "scheduled", msg |-> ForeignMsg])
                 /\ last' = Step("on_created", name, ForeignMsg, Bot, OtherEmoji, "scheduled")
            ELSE /\ UNCHANGED <<tasks, nTasks>>
                 /\ last' = Step("on_created", name, ForeignMsg, Bot, OtherEmoji, "no_running_loop")
       ELSE /\ UNCHANGED <<tasks, nTasks>>
            /\ last' = Step("on_created", name, ForeignMsg, Bot, OtherEmoji,
                            IF isDir THEN "directory" ELSE "not_a_draft")
    /\ UNCHANGED <<approvedDir, rejectionsLog, haConfigured, processed_drafts,
                   draft_messages, cards, ttsCalls, failedTts, handlers, nHandlers, textVars, otherVars>>

(***************************************************************************)
(* DraftFileHandler.process_draft up to its first suspension point.          *)
(* generate_tts_audio has no await in it (requests is blocking), so the      *)
(* test of processed_drafts, the read, the whole TTS stage and the start of  *)
(* send_draft_to_discord run as one step, which ends in channel.send.        *)
(***************************************************************************)
\* write_error: open(audio_path, 'wb') fails and no file is left
TtsOutcomes == {"ok", "post_error", "no_url", "get_error", "write_error"}

\* process_draft without the test of processed_drafts
AlreadyProcessed_NoTest(path) == FALSE

\* str(draft_path) in self.bot.processed_drafts
AlreadyProcessed(path) == path \in processed_drafts

\* what generate_tts_audio returns under the configuration: the service's
\* outcome, or a failure before any request when the URL or the token is unset
TtsResult(outcome) == IF haConfigured THEN outcome ELSE "unconfigured"

\* process_draft going on to the notification stage whatever TTS returned
NotifyAfterTts_Always(result) == TRUE

\* if audio_path:
NotifyAfterTts(result) == result = "ok"

RunProcessDraft(i) ==
    LET t == tasks[i]
        finish(outcome) ==
            /\ tasks' = RemoveAt(tasks, i)
            /\ last' = Step("process_draft", t.path, ForeignMsg, Bot, OtherEmoji, outcome)
    IN  /\ t.pc = "scheduled"
        /\ IF AlreadyProcessed(t.path)
           THEN /\ finish("duplicate")
                /\ UNCHANGED <<draftsDir, processed_drafts, ttsCalls, failedTts>>
           ELSE /\ processed_drafts' = processed_drafts \cup {t.path}
                /\ \/ /\ finish("read_error")
                      /\ UNCHANGED <<draftsDir, ttsCalls, failedTts>>
                   \/ \E outcome \in (IF haConfigured THEN TtsOutcomes ELSE {"ok"}) :
                        LET result == TtsResult(outcome)
                        IN  /\ ttsCalls' = [ttsCalls EXCEPT ![t.path] = @ + 1]
                            /\ draftsDir' = IF result = "ok"
                                            THEN draftsDir \cup {AudioPath(t.path)}
                                            ELSE draftsDir
                            /\ failedTts' = IF result = "ok"
                                            THEN failedTts
                                            ELSE failedTts \cup {t.path}
                            /\ IF NotifyAfterTts(result)
                               THEN \/ /\ tasks' = [tasks EXCEPT ![i].pc = "send"]
                                       /\ last' = Step("process_draft", t.path, ForeignMsg,
                                                       Bot, OtherEmoji, "sending")
                                    \/ finish(IF result = "ok" THEN "no_channel" ELSE result)
                               ELSE finish(result)
        /\ UNCHANGED <<approvedDir, rejectionsLog, haConfigured, draft_messages, cards,
                       handlers, nTasks, nHandlers, textVars, otherVars>>

CardIds == DOMAIN cards

CardsOf(path) == {m \in CardIds : cards[m].path = path}

\* message = await channel.send(embed=embed, file=discord.File(audio_path))
SendReturns(i, ok) ==
    LET t == tasks[i]
    IN  /\ t.pc = "send"
        /\ IF ok
           THEN /\ cards' = Append(cards, [path |-> t.path, color |-> "blue",
                                           fields |-> <<>>, reactions |-> <<>>])
                /\ tasks' = [tasks EXCEPT ![i].pc = "react1", ![i].msg = Len(cards) + 1]
                /\ last' = Step("send", t.path, Len(cards) + 1, Bot, OtherEmoji, "ok")
           ELSE /\ cards' = cards
                /\ tasks' = RemoveAt(tasks, i)
                /\ last' = Step("send", t.path, ForeignMsg, Bot, OtherEmoji, "error")
        /\ UNCHANGED <<draftsDir, approvedDir, rejectionsLog, haConfigured, processed_drafts,
                       draft_messages, ttsCalls, failedTts, handlers, nTasks, nHandlers, textVars, otherVars>>

\* add_reaction called with the reject emoji first
AddFirstReaction_RejectFirst(i, ok) ==
    LET t == tasks[i]
    IN  /\ t.pc = "react1"
        /\ IF ok
           THEN /\ cards' = [cards EXCEPT ![t.msg].reactions = Append(@, Reject)]
                /\ tasks' = [tasks EXCEPT ![i].pc = "react2"]
                /\ last' = Step("add_reaction", t.path, t.msg, Bot, Reject, "ok")
           ELSE /\ cards' = cards
                /\ tasks' = RemoveAt(tasks, i)
                /\ last' = Step("add_reaction", t.path, t.msg, Bot, Reject, "error")
        /\ UNCHANGED <<draftsDir, approvedDir, rejectionsLog, haConfigured, processed_drafts,
                       draft_messages, ttsCalls, failedTts, handlers, nTasks, nHandlers, textVars, otherVars>>

\* await message.add_reaction("approve")
AddFirstReaction(i, ok) ==
    LET t == tasks[i]
    IN  /\ t.pc = "react1"
        /\ IF ok
           THEN /\ cards' = [cards EXCEPT ![t.msg].reactions = Append(@, Approve)]
                /\ tasks' = [tasks EXCEPT ![i].pc = "react2"]
                /\ last' = Step("add_reaction", t.path, t.msg, Bot, Approve, "ok")
           ELSE /\ cards' = cards
                /\ tasks' = RemoveAt(tasks, i)
                /\ last' = Step("add_reaction", t.path, t.msg, Bot, Approve, "error")
        /\ UNCHANGED <<draftsDir, approvedDir, rejectionsLog, haConfigured, processed_drafts,
                       draft_messages, ttsCalls, failedTts, handlers, nTasks, nHandlers, textVars, otherVars>>

\* the draft recorded in draft_messages whether or not the second reaction was added
AddSecondReaction_TrackAnyway(i, ok) ==
    LET t == tasks[i]
    IN  /\ t.pc = "react2"
        /\ tasks' = RemoveAt(tasks, i)
        /\ draft_messages' = DictSet(draft_messages, t.path, t.msg)
        /\ IF ok
           THEN /\ cards' = [cards EXCEPT ![t.msg].reactions = Append(@, Reject)]
                /\ last' = Step("add_reaction", t.path, t.msg, Bot, Reject, "ok")
           ELSE /\ cards' = cards
                /\ last' = Step("add_reaction", t.path, t.msg, Bot, Reject, "error")
        /\ UNCHANGED <<draftsDir, approvedDir, rejectionsLog, haConfigured, processed_drafts,
                       ttsCalls, failedTts, handlers, nTasks, nHandlers, textVars, otherVars>>

\* await message.add_reaction("reject"), then bot.draft_messages[str(draft_path)] = message
AddSecondReaction(i, ok) ==
    LET t == tasks[i]
    IN  /\ t.pc = "react2"
        /\ tasks' = RemoveAt(tasks, i)
        /\ IF ok
           THEN /\ cards' = [cards EXCEPT ![t.msg].reactions = Append(@, Reject)]
                /\ draft_messages' = DictSet(draft_messages, t.path, t.msg)
                /\ last' = Step("add_reaction", t.path, t.msg, Bot, Reject, "ok")
           ELSE /\ cards' = cards
                /\ draft_messages' = draft_messages
                /\ last' = Step("add_reaction", t.path, t.msg, Bot, Reject, "error")
        /\ UNCHANGED <<draftsDir, approvedDir, rejectionsLog, haConfigured, processed_drafts,
                       ttsCalls, failedTts, handlers, nTasks, nHandlers, textVars, otherVars>>

(***************************************************************************)
(* DraftApprovalBot.on_raw_reaction_add.  A reaction event carries the       *)
(* message id, the reacting user and the emoji.  The bot's own events are    *)
(* those of the reactions it has added to its cards.                         *)
(***************************************************************************)
Range(s) == {s[i] : i \in DOMAIN s}

\* on_raw_reaction_add without the test of the reacting user
IsOwnReaction_NoTest(user) == FALSE

\* payload.user_id == self.user.id
IsOwnReaction(user) == user = Bot

ReactionEvent(msg, user, emoji) ==
    /\ msg \in CardIds \cup {ForeignMsg}
    /\ user = Bot => msg \in CardIds /\ emoji \in Range(cards[msg].reactions)
    /\ IF IsOwnReaction(user)
       THEN /\ UNCHANGED <<handlers, nHandlers>>
            /\ last' = Step("reaction", NoName, ForeignMsg, user, OtherEmoji, "own_reaction")
       ELSE /\ nHandlers < MaxHandlers
            /\ nHandlers' = nHandlers + 1
            /\ handlers' = Append(handlers, [msg |-> msg, emoji |-> emoji, pc |-> "fetch",
                                             path |-> NoName, fields |-> <<>>])
            /\ last' = Step("reaction", NoName, msg, user, emoji, "fetching")
    /\ UNCHANGED <<draftsDir, approvedDir, rejectionsLog, haConfigured, processed_drafts,
                   draft_messages, cards, ttsCalls, failedTts, tasks, nTasks, textVars, otherVars>>

StatusField(emoji) == IF emoji = Approve THEN "APPROVED" ELSE "REJECTED"

StatusColor(emoji) == IF emoji = Approve THEN "green" ELSE "red"

\* the lookup by the card's own draft, whether or not the table still has it
LookupDraft_ByCard(msg) == IF msg \in CardIds THEN cards[msg].path ELSE NoName

\* for path, msg in self.draft_messages.items(): if msg.id == payload.message_id
LookupDraft(msg) == Lookup(draft_messages, msg)

\* the dispatch with an else in the place of the test of the reject symbol:
\* every symbol other than approve rejects
FetchReturns_ElseRejects(i) ==
    LET h == handlers[i]
        path == LookupDraft(h.msg)
        audio == AudioPath(path)
        finish(outcome) ==
            /\ handlers' = RemoveAt(handlers, i)
            /\ last' = Step("lookup", path, h.msg, Reviewer, h.emoji, outcome)
            /\ UNCHANGED <<draftsDir, approvedDir>>
        suspend ==
            /\ handlers' = [handlers EXCEPT ![i].pc = "edit", ![i].path = path,
                                            ![i].fields = Append(cards[h.msg].fields,
                                                                 StatusField(h.emoji))]
            /\ last' = Step("lookup", path, h.msg, Reviewer, h.emoji, "editing")
    IN  /\ h.pc = "fetch"
        /\ \/ /\ handlers' = RemoveAt(handlers, i)
              /\ last' = Step("fetch", NoName, h.msg, Reviewer, h.emoji, "fetch_error")
              /\ UNCHANGED <<draftsDir, approvedDir>>
           \/ IF path = NoName
              THEN finish("untracked")
              ELSE IF h.emoji = Approve
                   THEN \/ /\ path \in draftsDir
                           /\ draftsDir' = draftsDir \ {path}
                           /\ approvedDir' = approvedDir \cup {path}
                           /\ suspend
                        \/ finish("move_error")
                   ELSE IF audio \in draftsDir
                        THEN \/ /\ draftsDir' = draftsDir \ {audio}
                                /\ approvedDir' = approvedDir
                                /\ suspend
                             \/ finish("unlink_error")
                        ELSE /\ UNCHANGED <<draftsDir, approvedDir>>
                             /\ suspend
        /\ UNCHANGED <<rejectionsLog, haConfigured, processed_drafts, draft_messages,
                       cards, ttsCalls, failedTts, tasks, nTasks, nHandlers, textVars, otherVars>>

\* The handler resumes from fetch_message: the lookup of the draft and, for
\* the approve and the reject emoji, handle_approval or handle_rejection up
\* to message.edit.  The fetch, the rename and the unlink may each fail.
FetchReturns(i) ==
    LET h == handlers[i]
        path == LookupDraft(h.msg)
        audio == AudioPath(path)
        finish(outcome) ==
            /\ handlers' = RemoveAt(handlers, i)
            /\ last' = Step("lookup", path, h.msg, Reviewer, h.emoji, outcome)
            /\ UNCHANGED <<draftsDir, approvedDir>>
        suspend ==
            /\ handlers' = [handlers EXCEPT ![i].pc = "edit", ![i].path = path,
                                            ![i].fields = Append(cards[h.msg].fields,
                                                                 StatusField(h.emoji))]
            /\ last' = Step("lookup", path, h.msg, Reviewer, h.emoji, "editing")
    IN  /\ h.pc = "fetch"
        /\ \/ /\ handlers' = RemoveAt(handlers, i)
              /\ last' = Step("fetch", NoName, h.msg, Reviewer, h.emoji, "fetch_error")
              /\ UNCHANGED <<draftsDir, approvedDir>>
           \/ IF path = NoName
              THEN finish("untracked")
              ELSE CASE h.emoji = Approve ->
                          \/ /\ path \in draftsDir
                             /\ draftsDir' = draftsDir \ {path}
                             /\ approvedDir' = approvedDir \cup {path}
                             /\ suspend
                          \/ finish("move_error")
                     [] h.emoji = Reject ->
                          IF audio \in draftsDir
                          THEN \/ /\ draftsDir' = draftsDir \ {audio}
                                  /\ approvedDir' = approvedDir
                                  /\ suspend
                               \/ finish("unlink_error")
                          ELSE /\ UNCHANGED <<draftsDir, approvedDir>>
                               /\ suspend
                     [] OTHER -> finish("other_emoji")
        /\ UNCHANGED <<rejectionsLog, haConfigured, processed_drafts, draft_messages,
                       cards, ttsCalls, failedTts, tasks, nTasks, nHandlers, textVars, otherVars>>

\* an exception left on_raw_reaction_add: get_channel(...).fetch_message is
\* awaited outside any try
Uncaught(step) == step.op = "fetch" /\ step.outcome = "fetch_error"

\* handle_rejection appending nothing to rejections.log
LogLines_None(path) == <<>>

\* f.write(f"{time.time()},{draft_path}\n")
LogLines(path) == << <<"ts", path>> >>

\* the entry deleted before message.edit is awaited, so that a failed edit
\* or log append leaves the draft untracked
EditReturns_ForgetFirst(i) ==
    LET h == handlers[i]
        done(outcome) == last' = Step("resolve", h.path, h.msg, Reviewer, h.emoji, outcome)
    IN  /\ h.pc = "edit"
        /\ handlers' = RemoveAt(handlers, i)
        /\ draft_messages' = DictDel(draft_messages, h.path)
        /\ \/ /\ done("edit_error")
              /\ UNCHANGED <<cards, rejectionsLog>>
           \/ /\ cards' = [cards EXCEPT ![h.msg].color = StatusColor(h.emoji),
                                        ![h.msg].fields = h.fields]
              /\ IF h.emoji = Reject
                 THEN \/ /\ rejectionsLog' = rejectionsLog \o LogLines(h.path)
                         /\ done("ok")
                      \/ /\ done("log_error")
                         /\ UNCHANGED rejectionsLog
                 ELSE /\ rejectionsLog' = rejectionsLog
                      /\ done("ok")
        /\ UNCHANGED <<draftsDir, approvedDir, haConfigured, processed_drafts,
                       ttsCalls, failedTts, tasks, nTasks, nHandlers, textVars, otherVars>>

\* The handler resumes from message.edit: the card shows the embed the
\* handler built; handle_rejection appends to rejections.log; the entry is
\* deleted from draft_messages (KeyError when it is no longer there).  The
\* edit and the append may each fail.
EditReturns(i) ==
    LET h == handlers[i]
        done(outcome) == last' = Step("resolve", h.path, h.msg, Reviewer, h.emoji, outcome)
        forget ==
            IF h.path \in Tracked
            THEN /\ draft_messages' = DictDel(draft_messages, h.path)
                 /\ done("ok")
            ELSE /\ draft_messages' = draft_messages
                 /\ done("key_error")
    IN  /\ h.pc = "edit"
        /\ handlers' = RemoveAt(handlers, i)
        /\ \/ /\ done("edit_error")
              /\ UNCHANGED <<cards, rejectionsLog, draft_messages>>
           \/ /\ cards' = [cards EXCEPT ![h.msg].color = StatusColor(h.emoji),
                                        ![h.msg].fields = h.fields]
              /\ IF h.emoji = Reject
                 THEN \/ /\ rejectionsLog' = rejectionsLog \o LogLines(h.path)
                         /\ forget
                      \/ /\ done("log_error")
                         /\ UNCHANGED <<rejectionsLog, draft_messages>>
                 ELSE /\ rejectionsLog' = rejectionsLog
                      /\ forget
        /\ UNCHANGED <<draftsDir, approvedDir, haConfigured, processed_drafts,
                       ttsCalls, failedTts, tasks, nTasks, nHandlers, textVars, otherVars>>

(***************************************************************************)
(* The workflow.                                                             *)
(***************************************************************************)
Next ==
    \/ \E name \in MainNames, inLoop \in BOOLEAN : OnCreated(name, FALSE, inLoop)
    \/ \E i \in DOMAIN tasks : RunProcessDraft(i)
    \/ \E i \in DOMAIN tasks, ok \in BOOLEAN : SendReturns(i, ok)
    \/ \E i \in DOMAIN tasks, ok \in BOOLEAN : AddFirstReaction(i, ok)
    \/ \E i \in DOMAIN tasks, ok \in BOOLEAN : AddSecondReaction(i, ok)
    \/ \E msg \in CardIds \cup {ForeignMsg}, user \in Users, emoji \in Emojis :
            ReactionEvent(msg, user, emoji)
    \/ \E i \in DOMAIN handlers : FetchReturns(i)
    \/ \E i \in DOMAIN handlers : EditReturns(i)

Spec == Init /\ [][Next]_vars

(***************************************************************************)
(* The watcher alone, shown every name of the table, files and directories,  *)
(* on the observer's thread and inside the loop.                             *)
(***************************************************************************)
\* files in the drafts folder up to which the watcher is shown new ones
MaxFiles == 2

NextWatcher ==
    \E name \in WatchNames, isDir \in BOOLEAN, inLoop \in BOOLEAN :
        /\ Cardinality(draftsDir) < MaxFiles
        /\ OnCreated(name, isDir, inLoop)

SpecWatcher == Init /\ [][NextWatcher]_vars

(***************************************************************************)
(* The text generate_tts_audio posts to the TTS service.                     *)
(***************************************************************************)
\* max_length = 5000
TtsMaxLength == 5000

\* the 100 of content[:max_length-100]
TtsMargin == 100

\* "... [content truncated for audio]"
TruncationMarker ==
    <<".", ".", ".", " ", "[", "c", "o", "n", "t", "e", "n", "t", " ",
      "t", "r", "u", "n", "c", "a", "t", "e", "d", " ", "f", "o", "r", " ",
      "a", "u", "d", "i", "o", "]">>

\* the truncation cutting at max_length, the marker coming on top of the limit
TtsContent_CutAtLimit(content) ==
    IF Len(content) > TtsMaxLength
    THEN SubSeq(content, 1, TtsMaxLength) \o TruncationMarker
    ELSE content

\* tts_content: content[:max_length-100] + marker when len(content) > max_length
TtsContent(content) ==
    IF Len(content) > TtsMaxLength
    THEN SubSeq(content, 1, TtsMaxLength - TtsMargin) \o TruncationMarker
    ELSE content

Alphabet == <<"a", ".", " ", "]", "b", "[", "o">>

\* fillings of the sample contents
MaxPattern == 3

SampleLengths ==
    {0, 1, 33, 4899, 4900, 4901, 4932, 4933, 4934, 4967, 4999, 5000, 5001, 5002,
     5033, 5100, 6000}

SampleContent(len, pat) == [i \in 1..len |-> Alphabet[((i * pat) % Len(Alphabet)) + 1]]

InitTts ==
    /\ Workflow0
    /\ \E len \in SampleLengths, pat \in 1..MaxPattern : ttsInput = SampleContent(len, pat)
    /\ ttsRequests = <<>>
    /\ OthersIdle

\* generate_tts_audio: requests.post(tts_url, json=data, headers=headers),
\* reached when the URL and the token are configured
PostTtsRequest ==
    /\ haConfigured
    /\ ttsRequests = <<>>
    /\ ttsRequests' = <<TtsContent(ttsInput)>>
    /\ UNCHANGED <<draftsDir, approvedDir, rejectionsLog, haConfigured, processed_drafts,
                   draft_messages, cards, ttsCalls, failedTts, tasks, handlers, nTasks,
                   nHandlers, ttsInput, otherVars, last>>

NextTts == PostTtsRequest

SpecTts == InitTts /\ [][NextTts]_vars

(***************************************************************************)
(* One call of generate_tts_audio(content, draft_path), request by request. *)
(***************************************************************************)
\* the variables of the approval workflow
workflowVars == <<draftsDir, approvedDir, rejectionsLog, haConfigured, processed_drafts,
                  draft_messages, cards, ttsCalls, failedTts, tasks, handlers, nTasks,
                  nHandlers>>

\* an environment variable: os.getenv gives None when it is unset and '' when
\* it is set to the empty string
EnvValues == {"unset", "empty", "set"}

\* the truth value of what os.getenv returned
Truthy(v) == v = "set"

\* the configuration test looking at the URL only
TtsConfigured_UrlOnly(c) == Truthy(c.url)

\* all([ha_url, ha_token])
TtsConfigured(c) == Truthy(c.url) /\ Truthy(c.token)

\* the state of the file at draft_path.with_suffix('.mp3')
AudioStates == {"absent", "old", "partial", "written"}

InitTtsCall ==
    /\ Workflow0
    /\ ttsInput = <<>>
    /\ ttsRequests = <<>>
    /\ \E name \in MainNames, url \in EnvValues, token \in EnvValues,
          entityHasDot \in BOOLEAN, audio \in {"absent", "old"} :
            ttsCall = [pc |-> "called", path |-> name, url |-> url, token |-> token,
                       entityHasDot |-> entityHasDot, requests |-> <<>>, audio |-> audio,
                       cause |-> "none", result |-> NoName]
    /\ haConfigured = TtsConfigured(ttsCall)
    /\ mainRun = Idle
    /\ snippet = Idle
    /\ sched = Idle
    /\ embed = Idle
    /\ social = Idle

\* return None, after the error was logged
TtsFails(cause) == [ttsCall EXCEPT !.pc = "returned", !.cause = cause, !.result = NoName]

\* the configuration test and the preparation of the request; the engine is
\* tts_entity.split('.')[1], an IndexError when TTS_ENTITY_ID has no dot
TtsPrepare ==
    /\ ttsCall.pc = "called"
    /\ ttsCall' = IF ~TtsConfigured(ttsCall) THEN TtsFails("unconfigured")
                  ELSE IF ~ttsCall.entityHasDot THEN TtsFails("bad_entity")
                  ELSE [ttsCall EXCEPT !.pc = "post"]
    /\ UNCHANGED <<workflowVars, textVars, mainRun, snippet, sched, embed, social,
                   last>>

\* requests.post(tts_url, ...), raise_for_status and response.json().get('url')
TtsPost(response) ==
    /\ ttsCall.pc = "post"
    /\ LET sent == [ttsCall EXCEPT !.requests = Append(@, "POST")]
       IN  ttsCall' = CASE response = "url" -> [sent EXCEPT !.pc = "get"]
                        [] response = "no_url" ->
                                [sent EXCEPT !.pc = "returned", !.cause = "no_url"]
                        [] OTHER ->
                                [sent EXCEPT !.pc = "returned", !.cause = "post_error"]
    /\ UNCHANGED <<workflowVars, textVars, mainRun, snippet, sched, embed, social,
                   last>>

\* requests.get(full_audio_url, ...) and raise_for_status
TtsGet(ok) ==
    /\ ttsCall.pc = "get"
    /\ LET sent == [ttsCall EXCEPT !.requests = Append(@, "GET")]
       IN  ttsCall' = IF ok THEN [sent EXCEPT !.pc = "write"]
                      ELSE [sent EXCEPT !.pc = "returned", !.cause = "get_error"]
    /\ UNCHANGED <<workflowVars, textVars, mainRun, snippet, sched, embed, social,
                   last>>

\* with open(audio_path, 'wb') as f: f.write(audio_response.content).  The
\* open may fail, leaving the file as it was; the write may fail after the
\* open has created or truncated the file.
TtsWrite(outcome) ==
    /\ ttsCall.pc = "write"
    /\ ttsCall' = CASE outcome = "ok" ->
                            [ttsCall EXCEPT !.pc = "returned", !.cause = "ok",
                                            !.audio = "written",
                                            !.result = AudioPath(ttsCall.path)]
                    [] outcome = "open_error" ->
                            [ttsCall EXCEPT !.pc = "returned", !.cause = "open_error"]
                    [] OTHER ->
                            [ttsCall EXCEPT !.pc = "returned", !.cause = "write_error",
                                            !.audio = "partial"]
    /\ UNCHANGED <<workflowVars, textVars, mainRun, snippet, sched, embed, social,
                   last>>

NextTtsCall ==
    \/ TtsPrepare
    \/ \E response \in {"url", "no_url", "error"} : TtsPost(response)
    \/ \E ok \in BOOLEAN : TtsGet(ok)
    \/ \E outcome \in {"ok", "open_error", "write_error"} : TtsWrite(outcome)

SpecTtsCall == InitTtsCall /\ [][NextTtsCall]_vars

(***************************************************************************)
(* One run of main() and of monitor_drafts_folder().                         *)
(***************************************************************************)
\* required_vars of main
RequiredVars == {"DISCORD_BOT_TOKEN", "DISCORD_APPROVAL_CHANNEL_ID", "HOME_ASSISTANT_URL",
                 "HOME_ASSISTANT_TOKEN", "DRAFTS_FOLDER"}

\* the test of main finding the unset variables only
MissingVars_UnsetOnly(env) == {v \in RequiredVars : env[v] = "unset"}

\* missing = [var for var in required_vars if not os.getenv(var)]
MissingVars(env) == {v \in RequiredVars : ~Truthy(env[v])}

\* the ways await bot.start(bot_token) ends: KeyboardInterrupt raised in the
\* coroutine, the task cancelled (how asyncio.run delivers an interrupt),
\* another exception (a failed login), or a plain return after the client was
\* closed elsewhere
StartEndings == {"keyboard_interrupt", "cancelled", "error", "returned"}

InitMain ==
    /\ Workflow0
    /\ ttsInput = <<>>
    /\ ttsRequests = <<>>
    /\ ttsCall = Idle
    /\ snippet = Idle
    /\ sched = Idle
    /\ embed = Idle
    /\ social = Idle
    /\ \E env \in [RequiredVars -> EnvValues], folderExists \in BOOLEAN :
            mainRun = [pc |-> "main", env |-> env, folderExists |-> folderExists,
                       logged |-> {}, loop |-> FALSE, bot |-> "none",
                       observer |-> "none", ending |-> "none", raised |-> FALSE]
    /\ haConfigured = (Truthy(mainRun.env["HOME_ASSISTANT_URL"])
                        /\ Truthy(mainRun.env["HOME_ASSISTANT_TOKEN"]))

\* main: the validation of the configuration, then asyncio.run
MainValidates ==
    /\ mainRun.pc = "main"
    /\ mainRun' = IF MissingVars(mainRun.env) # {}
                  THEN [mainRun EXCEPT !.pc = "exited", !.logged = MissingVars(mainRun.env)]
                  ELSE [mainRun EXCEPT !.pc = "monitor", !.loop = TRUE]
    /\ UNCHANGED <<workflowVars, textVars, ttsCall, snippet, sched, embed, social,
                   last>>

\* monitor_drafts_folder up to await bot.start: the folder is created when it
\* is missing, the function returns when the token is empty, the bot is
\* created and the observer is started
MonitorStarts ==
    /\ mainRun.pc = "monitor"
    /\ mainRun' = IF ~Truthy(mainRun.env["DISCORD_BOT_TOKEN"])
                  THEN [mainRun EXCEPT !.pc = "returned", !.folderExists = TRUE,
                                       !.loop = FALSE]
                  ELSE [mainRun EXCEPT !.pc = "bot_start", !.folderExists = TRUE,
                                       !.bot = "running", !.observer = "started"]
    /\ UNCHANGED <<workflowVars, textVars, ttsCall, snippet, sched, embed, social,
                   last>>

\* observer.stop() and observer.join() of the finally block, then the return
\* (or the exception going on to asyncio.run)
Finally(run, raised) ==
    [run EXCEPT !.pc = "returned", !.observer = "joined", !.loop = FALSE,
                !.raised = raised]

\* await bot.start(bot_token) ends.  Only KeyboardInterrupt enters the except
\* block, which stops the observer and awaits bot.close(); every other ending
\* goes to the finally block.
BotStartEnds(ending) ==
    /\ mainRun.pc = "bot_start"
    /\ mainRun' = CASE ending = "keyboard_interrupt" ->
                            [mainRun EXCEPT !.pc = "closing", !.observer = "stopped",
                                            !.ending = ending]
                    [] ending = "returned" ->
                            Finally([mainRun EXCEPT !.ending = ending, !.bot = "closed"], FALSE)
                    [] OTHER ->
                            Finally([mainRun EXCEPT !.ending = ending], TRUE)
    /\ UNCHANGED <<workflowVars, textVars, ttsCall, snippet, sched, embed, social,
                   last>>

\* await bot.close() of the except block returns or raises, then the finally
\* block
BotCloseReturns(ok) ==
    /\ mainRun.pc = "closing"
    /\ mainRun' = IF ok THEN Finally([mainRun EXCEPT !.bot = "closed"], FALSE)
                  ELSE Finally(mainRun, TRUE)
    /\ UNCHANGED <<workflowVars, textVars, ttsCall, snippet, sched, embed, social,
                   last>>

NextMain ==
    \/ MainValidates
    \/ MonitorStarts
    \/ \E ending \in StartEndings : BotStartEnds(ending)
    \/ \E ok \in BOOLEAN : BotCloseReturns(ok)

SpecMain == InitMain /\ [][NextMain]_vars

(***************************************************************************)
(* generate_linkedin_snippet(draft, max_length) of linkedin_poster.py.       *)
(***************************************************************************)
Newline == "\n"

\* the characters drafts are made of
DraftChars == {"a", " ", "#", Newline}

\* the characters str.strip() removes
Whitespace == {" ", Newline}

\* the length of the drafts
MaxDraftLen == 4

\* the small values of max_length
MaxSnippetLen == 3

RECURSIVE SplitLines(_)
\* draft.split('\n')
SplitLines(s) ==
    IF \E i \in DOMAIN s : s[i] = Newline
    THEN LET i == CHOOSE k \in DOMAIN s : s[k] = Newline /\ \A j \in 1..(k - 1) : s[j] # Newline
         IN  <<SubSeq(s, 1, i - 1)>> \o SplitLines(SubSeq(s, i + 1, Len(s)))
    ELSE <<s>>

RECURSIVE LStrip(_)
LStrip(s) == IF s # <<>> /\ s[1] \in Whitespace THEN LStrip(Tail(s)) ELSE s

RECURSIVE RStrip(_)
RStrip(s) ==
    IF s # <<>> /\ s[Len(s)] \in Whitespace THEN RStrip(SubSeq(s, 1, Len(s) - 1)) ELSE s

\* str.strip()
Strip(s) == RStrip(LStrip(s))

\* line.startswith('#')
StartsWithHash(line) == line # <<>> /\ line[1] = "#"

\* s[:n] for n >= 0
Slice(s, n) == SubSeq(s, 1, IF n < Len(s) THEN n ELSE Len(s))

RECURSIVE CollectLines(_, _, _, _)
\* the loop over the lines: a line that is not blank and does not start with
\* '#' is appended with a space, and the loop stops once the snippet is longer
\* than max_length
CollectLines(lines, i, text, max_length) ==
    IF i > Len(lines) THEN text
    ELSE IF Strip(lines[i]) # <<>> /\ ~StartsWithHash(lines[i])
         THEN LET longer == text \o lines[i] \o <<" ">>
              IN  IF Len(longer) > max_length THEN longer
                  ELSE CollectLines(lines, i + 1, longer, max_length)
         ELSE CollectLines(lines, i + 1, text, max_length)

\* "... #HCM #HR #ThoughtLeadership"
SnippetSuffix ==
    <<".", ".", ".", " ", "#", "H", "C", "M", " ", "#", "H", "R", " ", "#", "T", "h", "o",
      "u", "g", "h", "t", "L", "e", "a", "d", "e", "r", "s", "h", "i", "p">>

\* snippet[:max_length].strip() + "... #HCM #HR #ThoughtLeadership"
GenerateLinkedinSnippet(draft, max_length) ==
    Strip(Slice(CollectLines(SplitLines(draft), 1, <<>>, max_length), max_length))
        \o SnippetSuffix

RECURSIVE Texts(_)
\* the texts of DraftChars of length n
Texts(n) ==
    IF n = 0 THEN {<<>>}
    ELSE {Append(t, c) : t \in Texts(n - 1), c \in DraftChars}

\* the values of max_length: the small ones, and those from the length of the
\* suffix on
SnippetLengths ==
    (0..MaxSnippetLen) \cup {Len(SnippetSuffix) + k : k \in 0..MaxSnippetLen}

InitSnippet ==
    /\ Workflow0
    /\ haConfigured
    /\ ttsInput = <<>>
    /\ ttsRequests = <<>>
    /\ ttsCall = Idle
    /\ mainRun = Idle
    /\ sched = Idle
    /\ embed = Idle
    /\ social = Idle
    /\ \E n \in 0..MaxDraftLen :
         \E draft \in Texts(n), max_length \in SnippetLengths :
            snippet = [pc |-> "called", draft |-> draft, max_length |-> max_length,
                       result |-> <<>>]

GenerateSnippet ==
    /\ snippet.pc = "called"
    /\ snippet' = [snippet EXCEPT !.pc = "returned",
                                  !.result = GenerateLinkedinSnippet(snippet.draft,
                                                                     snippet.max_length)]
    /\ UNCHANGED <<workflowVars, textVars, ttsCall, mainRun, sched, embed, social,
                   last>>

NextSnippet == GenerateSnippet

SpecSnippet == InitSnippet /\ [][NextSnippet]_vars

(***************************************************************************)
(* One run of main() of scheduler.py.  is_monday() and is_tri_weekly_day()   *)
(* each read the clock (datetime.now().weekday()), and midnight may pass     *)
(* while the run goes on.                                                    *)
(***************************************************************************)
\* datetime.weekday(): 0 is Monday, 6 is Sunday
Weekdays == 0..6

\* the value of a weekday that has not been read
NoDay == -1

\* midnights that pass during one run
MaxMidnights == 1

\* how a workflow ends: all done, generate_topics raising, the save of the
\* file raising (both caught and logged by the workflow), or the upload
\* failing or being skipped (caught and logged by upload_to_nextcloud)
WorkflowOutcomes == {"ok", "generate_error", "save_error", "not_uploaded"}

\* the outcomes logged as "... workflow failed"
WorkflowFailed(outcome) == outcome \in {"generate_error", "save_error"}

\* is_monday() on weekday d
IsMonday(d) == d = 0

\* the report left out on Mondays
IsTriWeeklyDay_NotMonday(d) == d \in {2, 4}

\* is_tri_weekly_day() on weekday d
IsTriWeeklyDay(d) == d \in {0, 2, 4}

InitScheduler ==
    /\ Workflow0
    /\ haConfigured
    /\ ttsInput = <<>>
    /\ ttsRequests = <<>>
    /\ ttsCall = Idle
    /\ mainRun = Idle
    /\ snippet = Idle
    /\ embed = Idle
    /\ social = Idle
    /\ \E d \in Weekdays :
            sched = [pc |-> "main", start |-> d, day |-> d, nights |-> 0,
                     sawMonday |-> NoDay, sawTri |-> NoDay, ran |-> <<>>,
                     failed |-> {}, uploaded |-> {}]

\* the clock passes midnight
Midnight ==
    /\ sched.pc \notin {"idle", "done"}
    /\ sched.nights < MaxMidnights
    /\ sched' = [sched EXCEPT !.day = (@ + 1) % 7, !.nights = @ + 1]
    /\ UNCHANGED <<workflowVars, textVars, ttsCall, mainRun, snippet, embed, social,
                   last>>

\* if is_monday():
TestsMonday ==
    /\ sched.pc = "main"
    /\ sched' = [sched EXCEPT !.sawMonday = sched.day,
                              !.pc = IF IsMonday(sched.day) THEN "weekly" ELSE "test_tri"]
    /\ UNCHANGED <<workflowVars, textVars, ttsCall, mainRun, snippet, embed, social,
                   last>>

\* run_weekly_workflow(): every exception of the research is caught and logged
RunWeeklyWorkflow(outcome) ==
    /\ sched.pc = "weekly"
    /\ sched' = [sched EXCEPT !.ran = Append(@, "weekly"),
                              !.failed = IF WorkflowFailed(outcome)
                                         THEN @ \cup {"weekly"} ELSE @,
                              !.uploaded = IF outcome = "ok" THEN @ \cup {"weekly"} ELSE @,
                              !.pc = "test_tri"]
    /\ UNCHANGED <<workflowVars, textVars, ttsCall, mainRun, snippet, embed, social,
                   last>>

\* if is_tri_weekly_day():
TestsTriWeekly ==
    /\ sched.pc = "test_tri"
    /\ sched' = [sched EXCEPT !.sawTri = sched.day,
                              !.pc = IF IsTriWeeklyDay(sched.day) THEN "report" ELSE "done"]
    /\ UNCHANGED <<workflowVars, textVars, ttsCall, mainRun, snippet, embed, social,
                   last>>

\* run_tri_weekly_workflow(): every exception of the report is caught and logged
RunTriWeeklyWorkflow(outcome) ==
    /\ sched.pc = "report"
    /\ sched' = [sched EXCEPT !.ran = Append(@, "report"),
                              !.failed = IF WorkflowFailed(outcome)
                                         THEN @ \cup {"report"} ELSE @,
                              !.uploaded = IF outcome = "ok" THEN @ \cup {"report"} ELSE @,
                              !.pc = "done"]
    /\ UNCHANGED <<workflowVars, textVars, ttsCall, mainRun, snippet, embed, social,
                   last>>

NextScheduler ==
    \/ Midnight
    \/ TestsMonday
    \/ \E outcome \in WorkflowOutcomes : RunWeeklyWorkflow(outcome)
    \/ TestsTriWeekly
    \/ \E outcome \in WorkflowOutcomes : RunTriWeeklyWorkflow(outcome)

SpecScheduler == InitScheduler /\ [][NextScheduler]_vars

(***************************************************************************)
(* The card send_draft_to_discord composes for a draft.                      *)
(***************************************************************************)
\* the 2000 of content[:2000]
CardBodyLimit == 2000

Ellipsis == <<".", ".", ".">>

\* the body cut at the limit with no ellipsis
CardBody_NoEllipsis(content) ==
    IF Len(content) > CardBodyLimit THEN SubSeq(content, 1, CardBodyLimit) ELSE content

\* content[:2000] + ("..." if len(content) > 2000 else "")
CardBody(content) ==
    IF Len(content) > CardBodyLimit
    THEN SubSeq(content, 1, CardBodyLimit) \o Ellipsis
    ELSE content

DigitChars == <<"0", "1", "2", "3", "4", "5", "6", "7", "8", "9">>

RECURSIVE Decimal(_)
\* str(n) of a natural number, as the f-string formats len(content)
Decimal(n) ==
    IF n < 10 THEN <<DigitChars[n + 1]>>
    ELSE Decimal(n \div 10) \o <<DigitChars[(n % 10) + 1]>>

\* " characters"
SizeUnit == <<" ", "c", "h", "a", "r", "a", "c", "t", "e", "r", "s">>

\* the memo emoji, as one character, and " New Blog Draft: "
TitlePrefix ==
    <<":memo:", " ", "N", "e", "w", " ", "B", "l", "o", "g", " ", "D", "r", "a", "f", "t",
      ":", " ">>

\* the backquote, as one character
Backquote == "backquote"

\* the file name between two backquotes
FileField(name) == <<Backquote>> \o name \o <<Backquote>>

\* the lengths of the contents cards are composed for
CardLengths ==
    {0, 1, 9, 10, 11, 99, 100, 101, 999, 1000, 1997, 1999, 2000, 2001, 2002, 2003, 2004,
     4000, 5001}

\* the file names cards are composed for: those the watcher lets through
CardNames == {name \in WatchNames : IsDraftFile(name)}

InitCard ==
    /\ Workflow0
    /\ haConfigured
    /\ ttsInput = <<>>
    /\ ttsRequests = <<>>
    /\ ttsCall = Idle
    /\ mainRun = Idle
    /\ snippet = Idle
    /\ sched = Idle
    /\ social = Idle
    /\ \E len \in CardLengths, pat \in 1..MaxPattern, name \in CardNames :
            embed = [pc |-> "called", name |-> name, content |-> SampleContent(len, pat),
                     title |-> <<>>, description |-> <<>>, file |-> <<>>, size |-> <<>>]

\* discord.Embed(title=..., description=...), then the File and Size fields
ComposeCard ==
    /\ embed.pc = "called"
    /\ embed' = [embed EXCEPT !.pc = "composed",
                              !.title = TitlePrefix \o embed.name,
                              !.description = CardBody(embed.content),
                              !.file = FileField(embed.name),
                              !.size = Decimal(Len(embed.content)) \o SizeUnit]
    /\ UNCHANGED <<workflowVars, textVars, ttsCall, mainRun, snippet, sched, social, last>>

NextCard == ComposeCard

SpecCard == InitCard /\ [][NextCard]_vars

(***************************************************************************)
(* run_social_workflow of buffer_social_workflow.py, run after run.  A post  *)
(* is named by the time it was published; the feed does not change between   *)
(* the runs.                                                                 *)
(***************************************************************************)
\* posts of the feed, published at the times 1..MaxPosts
MaxPosts == 2

\* runs of run_social_workflow
MaxRuns == 2

\* last_checked = None: no file, or an empty one
NoTime == -1

\* datetime.now() when the file is rewritten: not before any post of the feed
Now == MaxPosts

\* the feeds: the posts newest first, all of them or some
Feeds == {SelectSeq([i \in 1..MaxPosts |-> MaxPosts + 1 - i], LAMBDA t : t \in S) :
            S \in SUBSET (1..MaxPosts)}

\* parse_rss_feed: the entries with last_checked is None or published > last_checked
NewPosts(feed, last_checked) ==
    SelectSeq(feed, LAMBDA t : last_checked = NoTime \/ t > last_checked)

InitSocial ==
    /\ Workflow0
    /\ haConfigured
    /\ ttsInput = <<>>
    /\ ttsRequests = <<>>
    /\ ttsCall = Idle
    /\ mainRun = Idle
    /\ snippet = Idle
    /\ sched = Idle
    /\ embed = Idle
    /\ \E feed \in Feeds, file \in {NoTime} \cup (0..MaxPosts) :
            social = [pc |-> "start", run |-> 1, feed |-> feed, file |-> file,
                      before |-> file, new_posts |-> <<>>, i |-> 1, scheduled |-> <<>>,
                      saved |-> FALSE, raised |-> FALSE,
                      prevFailed |-> FALSE, prevScheduled |-> <<>>]

\* the last-checked file is read and the feed parsed; an exception of
\* feedparser is logged and raised again by parse_rss_feed and by
\* run_social_workflow
ParseFeed(ok) ==
    /\ social.pc = "start"
    /\ social' = IF ok
                 THEN [social EXCEPT !.pc = "loop", !.i = 1,
                                     !.new_posts = NewPosts(social.feed, social.file)]
                 ELSE [social EXCEPT !.pc = "failed", !.raised = TRUE]
    /\ UNCHANGED <<workflowVars, textVars, ttsCall, mainRun, snippet, sched, embed, last>>

\* the file rewritten after each scheduled post
SchedulePost_SaveEach(ok) ==
    /\ social.pc = "loop"
    /\ social.i <= Len(social.new_posts)
    /\ social' = IF ok
                 THEN [social EXCEPT !.i = @ + 1, !.file = Now, !.saved = TRUE,
                                     !.scheduled = Append(@, social.new_posts[social.i])]
                 ELSE [social EXCEPT !.pc = "failed", !.raised = TRUE]
    /\ UNCHANGED <<workflowVars, textVars, ttsCall, mainRun, snippet, sched, embed, last>>

\* one turn of the loop: the teaser (generate_teaser_snippet falls back on
\* its own errors), the format and schedule_buffer_post, whose exception is
\* logged and raised again, by it and by run_social_workflow
SchedulePost(ok) ==
    /\ social.pc = "loop"
    /\ social.i <= Len(social.new_posts)
    /\ social' = IF ok
                 THEN [social EXCEPT !.i = @ + 1,
                                     !.scheduled = Append(@, social.new_posts[social.i])]
                 ELSE [social EXCEPT !.pc = "failed", !.raised = TRUE]
    /\ UNCHANGED <<workflowVars, textVars, ttsCall, mainRun, snippet, sched, embed, last>>

\* after the loop: open(last_checked_file, 'w') and the write of now; the
\* open empties the file, so a failing write leaves it empty
SaveLastChecked(ok) ==
    /\ social.pc = "loop"
    /\ social.i > Len(social.new_posts)
    /\ social' = IF ok
                 THEN [social EXCEPT !.pc = "done", !.file = Now, !.saved = TRUE]
                 ELSE [social EXCEPT !.pc = "failed", !.file = NoTime, !.saved = TRUE,
                                     !.raised = TRUE]
    /\ UNCHANGED <<workflowVars, textVars, ttsCall, mainRun, snippet, sched, embed, last>>

\* run_social_workflow is called again
NextRun ==
    /\ social.pc \in {"done", "failed"}
    /\ social.run < MaxRuns
    /\ social' = [social EXCEPT !.pc = "start", !.run = @ + 1, !.before = social.file,
                                !.new_posts = <<>>, !.i = 1, !.scheduled = <<>>,
                                !.saved = FALSE, !.raised = FALSE,
                                !.prevFailed = (social.pc = "failed"),
                                !.prevScheduled = social.scheduled]
    /\ UNCHANGED <<workflowVars, textVars, ttsCall, mainRun, snippet, sched, embed, last>>

NextSocial ==
    \/ \E ok \in BOOLEAN : ParseFeed(ok)
    \/ \E ok \in BOOLEAN : SchedulePost(ok)
    \/ \E ok \in BOOLEAN : SaveLastChecked(ok)
    \/ NextRun

SpecSocial == InitSocial /\ [][NextSocial]_vars

(***************************************************************************)
(* Properties.                                                               *)
(***************************************************************************)
RejectionLine(path) == <<"ts", path>>

LoggedRejection(path) == \E i \in DOMAIN rejectionsLog : rejectionsLog[i] = RejectionLine(path)

\* a handler's run of handle_approval has ended, with or without an error
ApproveHandled ==
    \/ last.op = "resolve" /\ last.emoji = Approve
    \/ last.op = "lookup" /\ last.emoji = Approve /\ last.outcome = "move_error"

\* a handler's run of handle_rejection has ended, with or without an error
RejectHandled ==
    \/ last.op = "resolve" /\ last.emoji = Reject
    \/ last.op = "lookup" /\ last.emoji = Reject /\ last.outcome = "unlink_error"

\* a handler has completed on the draft: its card carries a status and its
\* entry is gone from the tracking table
Resolved(path) ==
    /\ path \notin Tracked
    /\ \E m \in CardsOf(path) : cards[m].fields # <<>>

\* C1: no draft has both the effect of handle_approval (its file in the
\* approved folder) and an effect of handle_rejection (its line in
\* rejections.log).
C1_ResolvedAtMostOnce ==
    \A p \in WatchNames : ~(p \in approvedDir /\ LoggedRejection(p))

\* C2: generate_tts_audio is called at most once for each draft path, however
\* many creation events and process_draft tasks there are for it.
C2_TtsAtMostOnce == \A p \in WatchNames : ttsCalls[p] <= 1

\* C2 witness: a second process_draft task for a path already submitted to
\* TTS has run and was skipped.
C2_DuplicateTaskSkipped ==
    /\ last.op = "process_draft"
    /\ last.outcome = "duplicate"
    /\ ttsCalls[last.name] = 1

C5_UntrackedReactionChangesNothing ==
    [][(/\ last'.op = "lookup"
        /\ \A i \in DOMAIN draft_messages : draft_messages[i].msg # last'.msg) =>
            UNCHANGED <<draftsDir, approvedDir, rejectionsLog, processed_drafts,
                        draft_messages, cards, ttsCalls, failedTts, tasks>>]_vars

\* C5 witness: a reject reaction on the card of an approved draft was looked
\* up and ignored.
C5_ReactionOnResolvedCardIgnored ==
    /\ last.op = "lookup"
    /\ last.outcome = "untracked"
    /\ last.emoji = Reject
    /\ last.msg \in CardIds
    /\ cards[last.msg].fields = <<"APPROVED">>
    /\ cards[last.msg].path \in approvedDir

\* C6: the event of a reaction of the bot itself changes nothing and starts
\* no handler, so it fetches and edits no message.
C6_OwnReactionIgnored ==
    [][last'.op = "reaction" /\ last'.user = Bot => UNCHANGED progVars]_vars

\* C6 witness: an event of one of the bot's own reactions was delivered
\* while its card is tracked.
C6_OwnReactionOnTrackedCard ==
    /\ last.op = "reaction"
    /\ last.user = Bot
    /\ Len(cards) = 1
    /\ cards[1].path \in Tracked

\* each path has at most one entry in the table and at most one card
C7_OneEntryOneCard ==
    \A p \in WatchNames :
        /\ Cardinality({i \in DOMAIN draft_messages : draft_messages[i].path = p}) <= 1
        /\ Cardinality(CardsOf(p)) <= 1

\* a resolved draft stays out of the table, and a reaction on its card that
\* is delivered, fetched or looked up changes nothing
C7_ResolutionIsFinal ==
    \A p \in WatchNames :
        Resolved(p) =>
            /\ p \notin Tracked'
            /\ last'.op \in {"reaction", "fetch", "lookup"} /\ last'.msg \in CardsOf(p) =>
                    UNCHANGED <<draftsDir, approvedDir, rejectionsLog, processed_drafts,
                                draft_messages, cards, ttsCalls, failedTts, tasks>>

C8_TtsTextWithinLimit ==
    ttsRequests # <<>> =>
        LET m == ttsRequests[1]
            k == Len(m) - Len(TruncationMarker)
        IN  IF Len(ttsInput) <= TtsMaxLength
            THEN m = ttsInput
            ELSE /\ Len(m) <= TtsMaxLength
                 /\ k >= 0
                 /\ SubSeq(m, 1, k) = SubSeq(ttsInput, 1, k)
                 /\ SubSeq(m, k + 1, Len(m)) = TruncationMarker

\* C8 witness: a content longer than the limit was posted.
C8_LongContentPosted == ttsRequests # <<>> /\ Len(ttsInput) > TtsMaxLength

EndsWith(s, ext) == Len(s) >= Len(ext) /\ SubSeq(s, Len(s) - Len(ext) + 1, Len(s)) = ext

\* C9: a creation event creates a process_draft task if and only if it is
\* for a file whose lower-cased name ends in .md or .txt and contains
\* 'draft'; any other event changes no state of the workflow.
C9_SchedulesIffDraftFile ==
    [][last'.op = "on_created" =>
            LET name == last'.name
                qualifies ==
                    /\ last'.outcome # "directory"
                    /\ EndsWith(Lower(name), ExtMd) \/ EndsWith(Lower(name), ExtTxt)
                    /\ Contains(Lower(name), WordDraft)
            IN  /\ qualifies <=>
                        tasks' = Append(tasks, [path |-> name, pc |-> "scheduled",
                                                msg |-> ForeignMsg])
                /\ ~qualifies =>
                        UNCHANGED <<approvedDir, rejectionsLog, processed_drafts,
                                    draft_messages, cards, ttsCalls, failedTts, tasks,
                                    handlers>>]_vars

\* C10: a draft whose TTS generation failed has been submitted to TTS once,
\* has no card and no entry in the tracking table, and no task of it is in
\* the notification stage.
C10_FailedTtsIsAbandoned ==
    \A p \in failedTts :
        /\ ttsCalls[p] = 1
        /\ CardsOf(p) = {}
        /\ p \notin Tracked
        /\ \A i \in DOMAIN tasks : tasks[i].path = p => tasks[i].pc = "scheduled"

\* C10 witness: a later creation event for a draft whose TTS generation had
\* failed was processed and skipped.
C10_FailedDraftNotRetried ==
    /\ last.op = "process_draft"
    /\ last.outcome = "duplicate"
    /\ last.name \in failedTts

\* a step of the notification stage has failed: no channel (or a card that
\* could not be composed), a failed send or a failed add_reaction
NotificationFailed ==
    \/ last.op = "process_draft" /\ last.outcome = "no_channel"
    \/ last.op \in {"send", "add_reaction"} /\ last.outcome = "error"

\* C11: when a step of the notification stage has failed the draft has no
\* entry in the tracking table, card posted or not, and every entry of the
\* table is for a card that was sent for that draft and carries both
\* reactions of the bot.
C11_FailedNotificationUntracked ==
    /\ NotificationFailed => last.name \notin Tracked
    /\ \A i \in DOMAIN draft_messages :
            LET e == draft_messages[i]
            IN  /\ e.msg \in CardIds
                /\ cards[e.msg].path = e.path
                /\ cards[e.msg].reactions = <<Approve, Reject>>

\* C11 witness: the second add_reaction failed on a posted card, which stays
\* with one reaction and untracked.
C11_CardPostedButUntracked ==
    /\ last.op = "add_reaction"
    /\ last.emoji = Reject
    /\ last.outcome = "error"
    /\ last.msg \in CardsOf(last.name)
    /\ cards[last.msg].reactions = <<Approve>>

\* no task of send_draft_to_discord is still working on card m
NotificationOver(m) == \A i \in DOMAIN tasks : tasks[i].msg # m

\* C13 as stated: every posted card whose notification stage is over carries
\* exactly the two reactions of the bot, approve then reject.
C13_EveryCardHasBothReactions ==
    \A m \in CardIds : NotificationOver(m) => cards[m].reactions = <<Approve, Reject>>

\* C13 amended: the reactions of a card are added after the send, approve
\* first and reject second, never more than these two; a card whose
\* notification stage ended without an error carries exactly both, and a
\* draft is in the tracking table only when its card carries both.
C13_ReactionsInOrderBeforeTracking ==
    /\ \A m \in CardIds :
            /\ cards[m].reactions \in {<<>>, <<Approve>>, <<Approve, Reject>>}
            /\ \A i \in DOMAIN tasks :
                    tasks[i].msg = m =>
                        /\ tasks[i].pc = "react1" => cards[m].reactions = <<>>
                        /\ tasks[i].pc = "react2" => cards[m].reactions = <<Approve>>
                        /\ cards[m].path \notin Tracked
    /\ last.op = "add_reaction" /\ last.emoji = Reject /\ last.outcome = "ok" =>
            /\ cards[last.msg].reactions = <<Approve, Reject>>
            /\ last.name \in Tracked
    /\ \A i \in DOMAIN draft_messages :
            cards[draft_messages[i].msg].reactions = <<Approve, Reject>>

\* C13 witness: the second reaction was added and the draft recorded.
C13_BothReactionsThenTracked ==
    /\ last.op = "add_reaction"
    /\ last.emoji = Reject
    /\ last.outcome = "ok"
    /\ Lookup(draft_messages, last.msg) = last.name

\* C19: no step of on_raw_reaction_add ends with an exception that leaves
\* the handler.
C19_NoExceptionEscapes == ~Uncaught(last)

\* a step of handle_approval or handle_rejection has failed: the move, the
\* audio delete, the message edit or the log append
ResolutionFailed(step) ==
    /\ step.op \in {"lookup", "resolve"}
    /\ step.outcome \in {"move_error", "unlink_error", "edit_error", "log_error"}

\* C20: when the move, the audio delete, the message edit or the log append
\* fails for a draft that is in the tracking table, the table is left as it
\* is, so the draft is still tracked and the lookup of a later reaction on
\* the card finds it again.
C20_FailureLeavesDraftTracked ==
    [][ResolutionFailed(last') /\ last'.name \in Tracked =>
            /\ draft_messages' = draft_messages
            /\ last'.name \in Tracked'
            /\ Lookup(draft_messages', last'.msg) = last'.name]_vars

\* C20 witness: an approval moved the draft and then failed to edit the
\* card; a later approve reaction on the card was processed again and its
\* move failed, the file being in the approved folder already.
C20_ApprovalRetriedAfterMove ==
    /\ last.op = "lookup"
    /\ last.emoji = Approve
    /\ last.outcome = "move_error"
    /\ last.name \in approvedDir
    /\ last.name \in Tracked
    /\ cards[last.msg].fields = <<>>
    /\ handlers = <<>>

\* C12: generate_tts_audio issues no HTTP request when the URL or the token is
\* absent; it returns None when the configuration is absent, when the POST or
\* the GET fails and when the response has no URL, and in each of these cases
\* it has not touched the audio file; the path it returns is the draft's path
\* with the .mp3 extension, and it returns it only when that file has been
\* written.
C12_TtsFailuresWriteNoAudio ==
    ttsCall.pc # "idle" =>
        /\ ~(ttsCall.url = "set" /\ ttsCall.token = "set") => ttsCall.requests = <<>>
        /\ ttsCall.pc = "returned" /\ ~(ttsCall.url = "set" /\ ttsCall.token = "set") =>
                ttsCall.cause = "unconfigured"
        /\ ttsCall.cause \in {"unconfigured", "bad_entity", "post_error", "no_url", "get_error"} =>
                /\ ttsCall.result = NoName
                /\ ttsCall.audio \in {"absent", "old"}
        /\ ttsCall.result # NoName =>
                /\ ttsCall.result = AudioPath(ttsCall.path)
                /\ ttsCall.audio = "written"
                /\ ttsCall.requests = <<"POST", "GET">>

\* C12 witness: the download failed after the synthesis call had returned a
\* URL; None is returned and the audio file was not written.
C12_DownloadFailed ==
    /\ ttsCall.pc = "returned"
    /\ ttsCall.cause = "get_error"
    /\ ttsCall.requests = <<"POST", "GET">>
    /\ ttsCall.result = NoName
    /\ ttsCall.audio = "absent"

C15_ShutdownClosesEverything ==
    mainRun.pc = "returned" /\ mainRun.ending # "none" =>
        /\ mainRun.observer = "joined"
        /\ mainRun.bot = "closed"

\* C16: the snippet generate_linkedin_snippet returns has at most max_length
\* characters.
C16_SnippetWithinMaxLength ==
    snippet.pc = "returned" => Len(snippet.result) <= snippet.max_length

\* C17: when a run of the scheduler's main has ended, the research workflow
\* has run if and only if the day its test read is a Monday and the report
\* workflow if and only if the day its test read is a Monday, a Wednesday or
\* a Friday, each at most once and the research first, whether or not the
\* research failed; when no midnight passed during the run that day is the
\* day of the run, so that a Monday runs both in this order, a Wednesday or a
\* Friday the report only, and any other day neither.
C17_SchedulerRunsByWeekday ==
    sched.pc = "done" =>
        LET monday == sched.sawMonday = 0
            triWeekly == sched.sawTri \in {0, 2, 4}
        IN  /\ sched.ran = (IF monday THEN <<"weekly">> ELSE <<>>)
                                \o (IF triWeekly THEN <<"report">> ELSE <<>>)
            /\ sched.nights = 0 =>
                    /\ sched.sawMonday = sched.start
                    /\ sched.sawTri = sched.start
                    /\ sched.start = 0 => sched.ran = <<"weekly", "report">>
                    /\ sched.start \in {2, 4} => sched.ran = <<"report">>
                    /\ sched.start \in {1, 3, 5, 6} => sched.ran = <<>>

\* C17 witness: on a Monday the research failed and the report ran after it.
C17_ReportAfterFailedResearch ==
    /\ sched.pc = "done"
    /\ sched.start = 0
    /\ sched.nights = 0
    /\ "weekly" \in sched.failed
    /\ sched.ran = <<"weekly", "report">>

\* C18: after a creation event for a qualifying file, delivered by the
\* observer to on_created, a process_draft task for the file is scheduled on
\* the event loop.
C18_ObservedDraftIsScheduled ==
    last.op = "on_created" /\ last.outcome # "directory" /\ IsDraftFile(last.name) =>
        \E i \in DOMAIN tasks : tasks[i].path = last.name /\ tasks[i].pc = "scheduled"

\* C21: a draft has a card, an entry in the tracking table or a task in the
\* notification stage only when generate_tts_audio was called for it once and
\* did not fail, and the audio file exists when the notification stage
\* starts to send the card.
C21_CardOnlyAfterTts ==
    /\ \A p \in WatchNames :
            (\/ CardsOf(p) # {}
             \/ p \in Tracked
             \/ \E i \in DOMAIN tasks : tasks[i].path = p /\ tasks[i].pc # "scheduled") =>
                /\ p \in processed_drafts
                /\ ttsCalls[p] = 1
                /\ p \notin failedTts
    /\ last.op = "process_draft" /\ last.outcome = "sending" =>
            AudioPath(last.name) \in draftsDir

\* C21 witness: two drafts are in the notification stage at once, the one
\* detected later being ahead of the other.
C21_DraftsInterleave ==
    /\ Len(tasks) = 2
    /\ tasks[1].path # tasks[2].path
    /\ tasks[1].pc = "send"
    /\ tasks[2].pc = "react2"

\* C22: the delivery, the fetch and the lookup of a reaction of a user other
\* than the bot with a symbol that is neither approve nor reject change no
\* file, no log, no card and no entry of the tracking table, and the lookup of
\* a later reaction on a tracked card still finds its draft.
C22_OtherEmojiChangesNothing ==
    [][last'.op \in {"reaction", "fetch", "lookup"} /\ last'.user = Reviewer
            /\ last'.emoji = OtherEmoji =>
            /\ UNCHANGED <<draftsDir, approvedDir, rejectionsLog, draft_messages, cards,
                           processed_drafts>>
            /\ Lookup(draft_messages', last'.msg) = Lookup(draft_messages, last'.msg)]_vars

\* C22 witness: a reaction with another symbol on a tracked card was looked
\* up and the draft is still tracked, its file and its audio in place.
C22_OtherEmojiOnTrackedCard ==
    /\ last.op = "lookup"
    /\ last.emoji = OtherEmoji
    /\ last.outcome = "other_emoji"
    /\ last.name \in Tracked
    /\ last.name \in draftsDir
    /\ AudioPath(last.name) \in draftsDir
    /\ cards[last.msg].fields = <<>>

\* C23: no step removes a path from processed_drafts, and a process_draft
\* task for a path that is in the set ends at once, with no TTS call, no card
\* and no change of any file.
C23_ProcessedSetOnlyGrows ==
    [][/\ processed_drafts \subseteq processed_drafts'
       /\ last'.op = "process_draft" /\ last'.name \in processed_drafts =>
            /\ last'.outcome = "duplicate"
            /\ UNCHANGED <<draftsDir, approvedDir, rejectionsLog, draft_messages, cards,
                           ttsCalls, failedTts, processed_drafts>>]_vars

\* C23 witness: a file was created again at the path of an approved draft and
\* its task was skipped.
C23_RecreatedAfterApproval ==
    /\ last.op = "process_draft"
    /\ last.outcome = "duplicate"
    /\ last.name \in approvedDir
    /\ last.name \in draftsDir
    /\ Resolved(last.name)

\* C25: every path of the tracking table is in processed_drafts, no path has
\* two entries, and two entries never have the same message id.
C25_TrackedProcessedDistinctIds ==
    /\ Tracked \subseteq processed_drafts
    /\ \A i, j \in DOMAIN draft_messages :
            i # j => /\ draft_messages[i].path # draft_messages[j].path
                     /\ draft_messages[i].msg # draft_messages[j].msg

\* C25 witness: two drafts are tracked.
C25_TwoDraftsTracked ==
    /\ Len(draft_messages) = 2
    /\ Len(cards) = 2

\* C26: a step of handle_approval or handle_rejection for a draft leaves the
\* entry, the file and the audio file of every other tracked draft as they
\* are; an approval leaves the draft's own audio file and rejections.log as
\* they are, and a rejection the draft's own text file and the approved
\* folder.
C26_ReactionTouchesOnlyItsDraft ==
    [][last'.op \in {"lookup", "resolve"} /\ last'.emoji \in {Approve, Reject}
            /\ last'.name # NoName =>
            LET p == last'.name
                kept(f) == (f \in draftsDir) = (f \in draftsDir')
            IN  /\ \A i \in DOMAIN draft_messages :
                        LET q == draft_messages[i].path
                        IN  q # p =>
                                /\ \E j \in DOMAIN draft_messages' :
                                        draft_messages'[j] = draft_messages[i]
                                /\ kept(q)
                                /\ kept(AudioPath(q))
                /\ last'.emoji = Approve =>
                        /\ kept(AudioPath(p))
                        /\ rejectionsLog' = rejectionsLog
                /\ last'.emoji = Reject =>
                        /\ kept(p)
                        /\ approvedDir' = approvedDir]_vars

\* the number a string of decimal digits denotes
DigitValue(c) == (CHOOSE i \in 1..10 : DigitChars[i] = c) - 1

RECURSIVE DecimalValue(_)
DecimalValue(s) ==
    IF s = <<>> THEN 0
    ELSE 10 * DecimalValue(SubSeq(s, 1, Len(s) - 1)) + DigitValue(s[Len(s)])

\* C24: the body of the card is the content when the content has at most
\* 2000 characters and its first 2000 characters followed by '...' otherwise;
\* the size field is the decimal length of the whole content followed by
\* ' characters'; the title ends with the file name and the file field is the
\* file name between backquotes.
C24_CardShowsContentAndSize ==
    embed.pc = "composed" =>
        LET content == embed.content
            digits == SubSeq(embed.size, 1, Len(embed.size) - Len(SizeUnit))
        IN  /\ Len(content) <= 2000 => embed.description = content
            /\ Len(content) > 2000 =>
                    /\ Len(embed.description) = 2003
                    /\ SubSeq(embed.description, 1, 2000) = SubSeq(content, 1, 2000)
                    /\ SubSeq(embed.description, 2001, 2003) = <<".", ".", ".">>
            /\ EndsWith(embed.size, SizeUnit)
            /\ digits # <<>>
            /\ \A i \in DOMAIN digits : \E k \in DOMAIN DigitChars : DigitChars[k] = digits[i]
            /\ DecimalValue(digits) = Len(content)
            /\ EndsWith(embed.title, embed.name)
            /\ Len(embed.title) > Len(embed.name)
            /\ Len(embed.file) = Len(embed.name) + 2
            /\ SubSeq(embed.file, 2, Len(embed.file) - 1) = embed.name

\* C24 witness: a card was composed for a content longer than the limit.
C24_LongContentComposed ==
    /\ embed.pc = "composed"
    /\ Len(embed.content) = 2001
    /\ Len(embed.description) = 2003

\* C27: the last-checked file is opened for writing only after every new
\* post of the run has been scheduled; a run that failed in the parse or in
\* scheduling has raised its exception and left the file as it was; and the
\* run after a failed one selects again every post the failed run had
\* scheduled.
C27_LastCheckedSavedAfterAllPosts ==
    social.pc # "idle" =>
        /\ social.saved => social.scheduled = social.new_posts
        /\ ~social.saved => social.file = social.before
        /\ social.pc = "failed" => social.raised
        /\ social.pc = "failed" /\ ~social.saved => social.file = social.before
        /\ social.prevFailed /\ social.pc \in {"loop", "done"} =>
                \A k \in DOMAIN social.prevScheduled :
                    \E j \in DOMAIN social.new_posts :
                        social.new_posts[j] = social.prevScheduled[k]

\* C27 witness: a run scheduled its first post and failed on the second; the
\* next run has scheduled the first post again.
C27_PostScheduledTwice ==
    /\ social.pc # "idle"
    /\ social.run = 2
    /\ social.prevFailed
    /\ social.prevScheduled # <<>>
    /\ social.scheduled # <<>>
    /\ social.scheduled[1] = social.prevScheduled[1]

====
